---- MODULE Spec2Model ----
(***************************************************************************)
(* Model of src/app.py: a monopoly-like game simulation.                   *)
(*                                                                         *)
(* Players are identified by their index in the players list (0-based, as  *)
(* in the source).  A player object is its behavior (players[i]) and its   *)
(* balance (balance[i]); the balance lives on the player object, which the *)
(* GameRunner hands to every Game it creates.  The Game fields and the     *)
(* board describe the Game most recently created by play_game.             *)
(***************************************************************************)
EXTENDS Integers, Sequences, FiniteSets, TLC

(* ---------------- bounds of the model ---------------- *)

\* Number of cells of a generated board (random_board builds 20).
BoardLen == 3

\* Turn number at which play() stops (the source stops at 1000).
TurnLimit == 6

\* Number of play_game calls explored.
MaxGames == 2

\* Number of __turn calls explored on a Game whose turns are called directly.
MaxDirectTurns == 6

(* ---------------- program constants ---------------- *)

InitialBalance == 300
PassGoBonus == 100
CautiousMargin == 80
DemandingThreshold == 50

\* Property.owner = None
NoOwner == -1

\* has_winner() = None
NoWinner == -1

\* Outcome of __next_player_turn when no player is active: the recursion
\* never finds an active player and ends in a RecursionError.
RecursionError == -2

Impulsive == "ImpulsivePlayer"
Demanding == "DemandingPlayer"
Cautious == "CautiousPlayer"
Random == "RandomPlayer"
NoneType == "NoneType"

Behaviors == {Impulsive, Demanding, Cautious, Random}

(* ---------------- inputs ---------------- *)

\* roll_die(): sampled faces of the die (the source draws from 1..6): a
\* single step, and a roll long enough to bring a player round a short board.
DieFaces == {1, 3}

\* random_property(max_sell_cost, max_rent_cost) draws sell_cost from
\* 1..max_sell_cost and rent_cost from 1..max_rent_cost; two samples: a dear
\* property with a low rent and a cheap one with a high rent.
PropertyCosts == {<<300, 10>>, <<100, 250>>}

\* A property that would come into being with player 0 as its owner.
Property_owned(sell_cost, rent_cost) ==
    [sell_cost |-> sell_cost, rent_cost |-> rent_cost, owner |-> 0]

Property(sell_cost, rent_cost) ==
    [sell_cost |-> sell_cost, rent_cost |-> rent_cost, owner |-> NoOwner]

\* Every board over PropertyCosts: each cell a fresh, unowned property.
AllBoards ==
    {[c \in 0..(BoardLen - 1) |-> Property(f[c][1], f[c][2])] :
        f \in [0..(BoardLen - 1) -> PropertyCosts]}

\* random_board: the sampled outcomes are the two boards on which the dear
\* and the cheap property alternate.
Boards ==
    {[c \in 0..(BoardLen - 1) |->
         IF (c + k) % 2 = 0 THEN Property(300, 10) ELSE Property(100, 250)] :
        k \in 0..1}

\* Player lists handed to the GameRunner.
PlayerLists ==
    { <<Impulsive>>,
      <<Impulsive, Demanding>>,
      <<Impulsive, Random>>,
      <<Demanding, Impulsive, Cautious>> }

VARIABLES
    players,            \* GameRunner.players / Game.players: index -> behavior
    balance,            \* AbstractPlayer.balance of each player object
    board,              \* Game.board: cell -> Property
    current_player,     \* Game.current_player
    current_turn,       \* Game.current_turn
    player_position,    \* Game.player_position
    active_player,      \* Game.active_player
    die_roll,           \* __turn's local die_roll (0: no turn in this game yet)
    player_id,          \* __turn's local player_id: who took the last turn
    completed_track,    \* __turn's local completed_track
    landed_owner,       \* property.get_owner() as __turn found it (line 238)
    coin,               \* coin_toss() made by the last __turn, if any
    pc,                 \* "idle": outside play_game; "playing": in game.play();
                        \* "direct": a Game whose __turn is called directly
    games_simulated,    \* GameRunner.games_simulated
    timed_out_games,    \* GameRunner.timed_out_games
    num_turns,          \* GameRunner.num_turns
    winner,             \* GameRunner.winner (player indices)
    wins_per_behavior,  \* GameRunner.wins_per_behavior
    call_result         \* outcome of the last accessor call on the GameRunner
                        \* since the last play_game: what was called, what it
                        \* raised, what it returned

game_vars == <<board, current_player, current_turn, player_position,
               active_player, die_roll, player_id, completed_track,
               landed_owner, coin>>
runner_vars == <<games_simulated, timed_out_games, num_turns, winner,
                 wins_per_behavior>>
vars == <<players, balance, game_vars, pc, runner_vars, call_result>>

NumPlayers == Len(players)
PlayerIds == 0..(NumPlayers - 1)

\* players is kept as a TLA+ sequence (1-based); ids are 0-based as in Python.
BehaviorOf(id) == players[id + 1]

(* ---------------- pure functions ---------------- *)

Min(a, b) == IF a <= b THEN a ELSE b

\* AbstractPlayer.increase_balance / decrease_balance on player id.
increase_balance(bal, id, amount) == [bal EXCEPT ![id] = @ + amount]
decrease_balance(bal, id, amount) == [bal EXCEPT ![id] = @ - amount]

transfer_uncapped(bal, p_from, p_to, amount) ==
    IF p_from # p_to
    THEN decrease_balance(increase_balance(bal, p_to, amount), p_from, amount)
    ELSE bal

transfer_charges_self(bal, p_from, p_to, amount) ==
    IF p_from # p_to
    THEN decrease_balance(
             increase_balance(bal, p_to, Min(bal[p_from], amount)),
             p_from, amount)
    ELSE decrease_balance(bal, p_from, amount)

\* A transfer that would take from the payer only what the payee receives.
transfer_symmetric(bal, p_from, p_to, amount) ==
    IF p_from # p_to
    THEN decrease_balance(
             increase_balance(bal, p_to, Min(bal[p_from], amount)),
             p_from, Min(bal[p_from], amount))
    ELSE bal

\* transfer(p_from, p_to, amount)
transfer(bal, p_from, p_to, amount) ==
    IF p_from # p_to
    THEN decrease_balance(
             increase_balance(bal, p_to, Min(bal[p_from], amount)),
             p_from, amount)
    ELSE bal

decide_to_buy_no_margin(behavior, own_balance, property, toss) ==
    CASE behavior = Impulsive -> TRUE
      [] behavior = Demanding -> property.rent_cost > DemandingThreshold
      [] behavior = Cautious -> own_balance >= property.sell_cost
      [] behavior = Random -> toss

decide_to_buy_all_demanding(behavior, own_balance, property, toss) ==
    CASE behavior = Impulsive -> property.rent_cost > DemandingThreshold
      [] behavior = Demanding -> property.rent_cost > DemandingThreshold
      [] behavior = Cautious ->
             own_balance >= property.sell_cost + CautiousMargin
      [] behavior = Random -> toss

\* decide_to_buy of the four player classes; toss is coin_toss()'s result.
decide_to_buy(behavior, own_balance, property, toss) ==
    CASE behavior = Impulsive -> TRUE
      [] behavior = Demanding -> property.rent_cost > DemandingThreshold
      [] behavior = Cautious ->
             own_balance >= property.sell_cost + CautiousMargin
      [] behavior = Random -> toss

\* Whether decide_to_buy tosses the coin.
TossesCoin(behavior) == behavior = Random

\* Game.has_winner
ActivePlayers(active) == {id \in DOMAIN active : active[id]}

\* A test that would name a winner while several players are still active.
has_winner_early(active) ==
    IF Cardinality(ActivePlayers(active)) >= 1
    THEN CHOOSE id \in ActivePlayers(active) : TRUE
    ELSE NoWinner

has_winner(active) ==
    IF Cardinality(ActivePlayers(active)) = 1
    THEN CHOOSE id \in ActivePlayers(active) : TRUE
    ELSE NoWinner

stop_condtion_late(active, turn) ==
    has_winner(active) # NoWinner \/ turn > TurnLimit

stop_condtion_ignores_winner(active, turn) == turn >= TurnLimit

\* Game.__stop_condtion
stop_condtion(active, turn) ==
    has_winner(active) # NoWinner \/ turn >= TurnLimit

\* Game.player_with_highest_balance
MaxOf(S) == CHOOSE m \in S : \A x \in S : x <= m

RECURSIVE FirstWith(_, _, _, _)
FirstWith(bal, target, id, n) ==
    IF id >= n THEN NoWinner
    ELSE IF bal[id] = target THEN id
    ELSE FirstWith(bal, target, id + 1, n)

player_with_highest_balance_last(bal) ==
    LET max_balance == MaxOf({bal[id] : id \in DOMAIN bal})
    IN  CHOOSE id \in DOMAIN bal :
            /\ bal[id] = max_balance
            /\ \A other \in DOMAIN bal :
                   bal[other] = max_balance => other <= id

player_with_highest_balance(bal) ==
    LET max_balance == MaxOf({bal[id] : id \in DOMAIN bal})
    IN  FirstWith(bal, max_balance, 0, Cardinality(DOMAIN bal))

\* A search that would hand the turn to the neighbour, active or not.
next_player_turn_no_skip(cur, active, fuel) ==
    (cur + 1) % Cardinality(DOMAIN active)

\* A search that would restart from player 0 instead of the neighbour.
next_player_turn_lowest(cur, active, fuel) ==
    IF ActivePlayers(active) = {} THEN RecursionError
    ELSE CHOOSE id \in ActivePlayers(active) :
             \A other \in ActivePlayers(active) : id <= other

\* Game.__next_player_turn: steps left before the scan has come full circle
\* without finding an active player (then it can only recurse forever).
RECURSIVE next_player_turn(_, _, _)
next_player_turn(cur, active, fuel) ==
    LET nxt == (cur + 1) % Cardinality(DOMAIN active)
    IN  IF active[nxt] THEN nxt
        ELSE IF fuel = 0 THEN RecursionError
        ELSE next_player_turn(nxt, active, fuel - 1)

adjust_position_strict(position, board_length) ==
    IF position >= board_length
    THEN <<position % board_length, position > board_length>>
    ELSE <<position, FALSE>>

\* Game.__adjust_position_to_length: <<new position, completed_track>>
adjust_position_to_length(position, board_length) ==
    IF position >= board_length
    THEN <<position % board_length, TRUE>>
    ELSE <<position, FALSE>>

apply_defeat_keeps_properties(brd, id) == brd

\* Game.__apply_defeat_to: the board with the player's properties released.
apply_defeat_to(brd, id) ==
    [c \in DOMAIN brd |->
        IF brd[c].owner = id
        THEN [brd[c] EXCEPT !.owner = NoOwner]
        ELSE brd[c]]

(* ---------------- state machine ---------------- *)

\* No Game has been created yet: the Game fields hold the values
\* Game.__init__ would give them, over an empty board.  (After play_game
\* returns, the fields keep describing the Game it played, until the next
\* play_game creates another one.)
NoGame ==
    /\ board = << >>
    /\ current_player = 0
    /\ current_turn = 1
    /\ player_position = [id \in PlayerIds |-> 0]
    /\ active_player = [id \in PlayerIds |-> TRUE]
    /\ die_roll = 0
    /\ player_id = 0
    /\ completed_track = FALSE
    /\ landed_owner = NoOwner
    /\ coin = "none"

\* GameRunner.get_win_percentage_per_behavior: each class mapped to the
\* fraction wins / games_simulated, kept as <<numerator, denominator>>; the
\* NoneType entry is popped.  (The division needs games_simulated # 0.)
get_win_percentage_per_behavior ==
    LET result == [b \in DOMAIN wins_per_behavior |->
                      <<wins_per_behavior[b], games_simulated>>]
    IN  [b \in DOMAIN result \ {NoneType} |-> result[b]]

\* No accessor has been called.
NoCall == [call |-> "none", raised |-> "none", value |-> << >>]

\* Python's a / b on ints: the fraction, kept as <<numerator, denominator>>,
\* or a ZeroDivisionError when b is 0.
Raises(a, b) == IF b = 0 THEN "ZeroDivisionError" ELSE "none"
Quotient(a, b) == IF b = 0 THEN << >> ELSE <<a, b>>

\* sum(self.num_turns)
RECURSIVE SeqSum(_)
SeqSum(q) == IF q = << >> THEN 0 ELSE Head(q) + SeqSum(Tail(q))

\* GameRunner.__init__ over freshly constructed players; no Game exists yet.
Init ==
    /\ players \in PlayerLists
    /\ balance = [id \in PlayerIds |-> InitialBalance]
    /\ NoGame
    /\ pc = "idle"
    /\ games_simulated = 0
    /\ timed_out_games = 0
    /\ num_turns = << >>
    /\ winner = << >>
    /\ wins_per_behavior = [b \in Behaviors \cup {NoneType} |-> 0]
    /\ call_result = NoCall

\* A play_game that would construct its players anew.
PlayGameBegin_new_players ==
    /\ pc = "idle"
    /\ games_simulated < MaxGames
    /\ board' \in Boards
    /\ balance' = [id \in PlayerIds |-> InitialBalance]
    /\ current_player' = 0
    /\ current_turn' = 1
    /\ player_position' = [id \in PlayerIds |-> 0]
    /\ active_player' = [id \in PlayerIds |-> TRUE]
    /\ die_roll' = 0
    /\ player_id' = 0
    /\ completed_track' = FALSE
    /\ landed_owner' = NoOwner
    /\ coin' = "none"
    /\ pc' = "playing"
    /\ call_result' = NoCall
    /\ UNCHANGED <<players, runner_vars>>

\* play_game, first part: random_game builds a fresh board and a Game over
\* the same player objects, then game.play() is entered.
PlayGameBegin ==
    /\ pc = "idle"
    /\ games_simulated < MaxGames
    /\ board' \in Boards
    /\ current_player' = 0
    /\ current_turn' = 1
    /\ player_position' = [id \in PlayerIds |-> 0]
    /\ active_player' = [id \in PlayerIds |-> TRUE]
    /\ die_roll' = 0
    /\ player_id' = 0
    /\ completed_track' = FALSE
    /\ landed_owner' = NoOwner
    /\ coin' = "none"
    /\ pc' = "playing"
    /\ call_result' = NoCall
    /\ UNCHANGED <<players, balance, runner_vars>>

\* Game.__turn with die roll d and (when the strategy asks for it) toss t.
turn(d, t) ==
    LET id == current_player
        moved == adjust_position_to_length(player_position[id] + d,
                                           Cardinality(DOMAIN board))
        position == moved[1]
        completed == moved[2]
        bal1 == IF completed
                THEN increase_balance(balance, id, PassGoBonus)
                ELSE balance
        property == board[position]
        bal2 == transfer(bal1, id, property.owner, property.rent_cost)
        defeated == bal2[id] < 0
        affordable == bal1[id] >= property.sell_cost
        buys == affordable
                /\ decide_to_buy(BehaviorOf(id), bal1[id], property, t)
        active1 == IF property.owner # NoOwner /\ defeated
                   THEN [active_player EXCEPT ![id] = FALSE]
                   ELSE active_player
        nxt == next_player_turn(id, active1, NumPlayers)
    IN  /\ player_id' = id
        /\ die_roll' = d
        /\ completed_track' = completed
        /\ landed_owner' = property.owner
        /\ player_position' = [player_position EXCEPT ![id] = position]
        /\ IF property.owner # NoOwner
           THEN /\ balance' = bal2
                /\ board' = IF defeated
                            THEN apply_defeat_to(board, id)
                            ELSE board
                /\ coin' = "none"
           ELSE /\ balance' = IF buys
                              THEN decrease_balance(bal1, id,
                                                    property.sell_cost)
                              ELSE bal1
                /\ board' = IF buys
                            THEN [board EXCEPT ![position].owner = id]
                            ELSE board
                /\ coin' = IF affordable /\ TossesCoin(BehaviorOf(id))
                           THEN (IF t THEN "heads" ELSE "tails")
                           ELSE "none"
        /\ active_player' = active1
        /\ current_turn' = current_turn + 1
        /\ IF nxt = RecursionError
           THEN /\ current_player' = current_player
                /\ pc' = "RecursionError"
           ELSE /\ current_player' = nxt
                /\ pc' = pc

\* One iteration of the loop of Game.play().
PlayTurn ==
    /\ pc = "playing"
    /\ ~stop_condtion(active_player, current_turn)
    /\ \E d \in DieFaces, t \in BOOLEAN : turn(d, t)
    /\ UNCHANGED <<players, runner_vars, call_result>>

type_of_recorded_winner(w) ==
    IF w = NoWinner
    THEN BehaviorOf(player_with_highest_balance(balance))
    ELSE BehaviorOf(w)

\* type(winner) in play_game: the class of has_winner()'s result.
type_of(w) == IF w = NoWinner THEN NoneType ELSE BehaviorOf(w)

\* play_game, second part: game.play() has returned; register the outcome.
PlayGameRecord ==
    /\ pc = "playing"
    /\ stop_condtion(active_player, current_turn)
    /\ LET w == has_winner(active_player)
       IN  /\ games_simulated' = games_simulated + 1
           /\ IF w = NoWinner
              THEN /\ timed_out_games' = timed_out_games + 1
                   /\ winner' = Append(winner,
                                       player_with_highest_balance(balance))
              ELSE /\ timed_out_games' = timed_out_games
                   /\ winner' = Append(winner, w)
           /\ num_turns' = Append(num_turns, current_turn)
           /\ wins_per_behavior' =
                  [wins_per_behavior EXCEPT ![type_of(w)] = @ + 1]
    /\ pc' = "idle"
    /\ UNCHANGED <<players, balance, game_vars, call_result>>

\* GameRunner.get_average_num_turns, called between play_game calls.
GetAverageNumTurns ==
    /\ pc = "idle"
    /\ call_result' =
           [call |-> "get_average_num_turns",
            raised |-> Raises(SeqSum(num_turns), Len(num_turns)),
            value |-> Quotient(SeqSum(num_turns), Len(num_turns))]
    /\ UNCHANGED <<players, balance, game_vars, pc, runner_vars>>

\* GameRunner.get_win_percentage_per_behavior, called between play_game
\* calls: the first division of the loop raises when games_simulated is 0.
GetWinPercentagePerBehavior ==
    /\ pc = "idle"
    /\ call_result' =
           [call |-> "get_win_percentage_per_behavior",
            raised |-> Raises(0, games_simulated),
            value |-> IF games_simulated = 0 THEN << >>
                      ELSE get_win_percentage_per_behavior]
    /\ UNCHANGED <<players, balance, game_vars, pc, runner_vars>>

Next ==
    \/ PlayGameBegin
    \/ PlayTurn
    \/ PlayGameRecord
    \/ GetAverageNumTurns
    \/ GetWinPercentagePerBehavior

Spec == Init /\ [][Next]_vars

\* A Game over a single impulsive player.  Game.play() on it returns at once
\* (has_winner() holds from the start), so its turns are the ones a caller
\* makes by calling __turn directly.
DirectInit ==
    /\ players = <<Impulsive>>
    /\ balance = [id \in PlayerIds |-> InitialBalance]
    /\ board \in AllBoards
    /\ current_player = 0
    /\ current_turn = 1
    /\ player_position = [id \in PlayerIds |-> 0]
    /\ active_player = [id \in PlayerIds |-> TRUE]
    /\ die_roll = 0
    /\ player_id = 0
    /\ completed_track = FALSE
    /\ landed_owner = NoOwner
    /\ coin = "none"
    /\ pc = "direct"
    /\ games_simulated = 0
    /\ timed_out_games = 0
    /\ num_turns = << >>
    /\ winner = << >>
    /\ wins_per_behavior = [b \in Behaviors \cup {NoneType} |-> 0]
    /\ call_result = NoCall

\* Game.__turn called directly.
DirectTurn ==
    /\ pc = "direct"
    /\ current_turn <= MaxDirectTurns
    /\ \E d \in DieFaces, t \in BOOLEAN : turn(d, t)
    /\ UNCHANGED <<players, runner_vars, call_result>>

DirectSpec == DirectInit /\ [][DirectTurn]_vars

(* ---------------- vocabulary of the properties ---------------- *)

\* A step that executes one __turn.
TurnStep == current_turn' = current_turn + 1

\* The step in which play_game enters game.play() / play() has returned.
BeginStep == pc = "idle" /\ pc' = "playing"
RecordStep == pc = "playing" /\ pc' = "idle"

\* In a TurnStep: the player taking the turn, the property it lands on (as
\* it was before the turn), and its balance once the wrap bonus is counted.
Mover == current_player
Wraps == player_position[Mover] + die_roll' >= BoardLen
Landed == board[player_position'[Mover]]
AfterBonus == balance[Mover] + (IF Wraps THEN PassGoBonus ELSE 0)

NumActive == Cardinality({id \in PlayerIds : active_player[id]})

(* ---------------- C1 ---------------- *)

\* C1: play() terminates; current_turn starts at 1, never decreases, grows
\* by exactly 1 per executed turn and never exceeds the turn limit.
\* Termination: inside play() every turn completes (the search for the next
\* player ends), every state is a stop state or lets the next turn run, and
\* each turn raises a counter that is bounded by the turn limit.
C1_TurnCounterAndTermination ==
    /\ [](current_turn >= 1 /\ current_turn <= TurnLimit)
    /\ [](pc # "RecursionError")
    /\ [](pc = "playing"
            => \/ NumActive = 1
               \/ current_turn >= TurnLimit
               \/ ENABLED PlayTurn)
    /\ [][BeginStep => current_turn' = 1]_vars
    /\ [][pc = "playing" /\ pc' = "playing"
            => current_turn' = current_turn + 1]_vars

\* A game with two players ran its turns up to the limit.
C1_Witness ==
    /\ NumPlayers >= 2
    /\ pc = "playing"
    /\ current_turn = TurnLimit
    /\ die_roll # 0

(* ---------------- C2 ---------------- *)

\* C2: every property's owner, if set, is an active player of the game, and
\* right after a player is eliminated nothing on the board is owned by it.
C2_OwnersAreActive ==
    /\ [](\A c \in DOMAIN board :
             \/ board[c].owner = NoOwner
             \/ /\ board[c].owner \in PlayerIds
                /\ active_player[board[c].owner])
    /\ [][\A id \in PlayerIds :
             TurnStep /\ active_player[id] /\ ~active_player'[id]
                => \A c \in DOMAIN board' : board'[c].owner # id]_vars

\* The impulsive player bought the dear property, was eliminated by a rent
\* and the property is free again, while the other player still owns one.
C2_Witness ==
    /\ players = <<Impulsive, Demanding>>
    /\ games_simulated = 0
    /\ ~active_player[0]
    /\ balance[0] = -250
    /\ \A c \in DOMAIN board : board[c].owner # 0
    /\ \E c \in DOMAIN board : board[c].owner = 1

(* ---------------- C3 ---------------- *)

\* C3: with two or more players, play() returns either Won (exactly one
\* active player) or TimedOut (turn limit reached, two or more active);
\* never with no active player, and no turn runs once one player is left.
C3_TerminalStates ==
    /\ [][RecordStep /\ NumPlayers >= 2
            => \/ NumActive = 1
               \/ current_turn = TurnLimit /\ NumActive >= 2]_vars
    /\ [](NumActive >= 1)
    /\ [][TurnStep => NumActive # 1]_vars

\* One game of the run was won and another one timed out.
C3_Witness ==
    /\ NumPlayers >= 2
    /\ games_simulated = 2
    /\ timed_out_games = 1

(* ---------------- C4 ---------------- *)

\* C4: paying rent to another player takes the full rent from the payer
\* (even below zero) and credits the owner min(payer's balance, rent), never
\* more than the payer had.
C4_Transfer ==
    [][TurnStep /\ Landed.owner # NoOwner /\ Landed.owner # Mover
         => /\ balance'[Mover] = AfterBonus - Landed.rent_cost
            /\ balance'[Landed.owner] =
                   balance[Landed.owner]
                   + (IF AfterBonus <= Landed.rent_cost
                      THEN AfterBonus ELSE Landed.rent_cost)
            /\ balance'[Landed.owner] - balance[Landed.owner] <= AfterBonus
      ]_vars

\* A payer with balance 0 paid a rent of 250: it dropped to -250 and the
\* owner was credited 0.
C4_Witness ==
    /\ players = <<Impulsive, Demanding>>
    /\ games_simulated = 0
    /\ landed_owner = 1
    /\ player_id = 0
    /\ balance = (0 :> -250 @@ 1 :> 200)

(* ---------------- C5 ---------------- *)

\* C5 as stated: a turn in which the player lands on its own property
\* changes no balance and does not eliminate the player.
C5_Original ==
    [][TurnStep /\ Landed.owner = Mover
         => balance' = balance /\ active_player'[Mover]]_vars

\* C5 amended: a turn in which the player lands on its own property pays no
\* rent: the only balance that can change is the player's own, by the wrap
\* bonus of that turn, and the player is eliminated exactly when its balance
\* (bonus counted) is negative.
C5_SelfRent ==
    [][TurnStep /\ Landed.owner = Mover
         => /\ balance' = [balance EXCEPT ![Mover] = AfterBonus]
            /\ active_player'[Mover] <=> AfterBonus >= 0
            /\ \A id \in PlayerIds \ {Mover} :
                   active_player'[id] = active_player[id]]_vars

\* A player has just landed on a property it already owned.
C5_Witness ==
    /\ pc = "playing"
    /\ die_roll # 0
    /\ landed_owner = player_id
    /\ completed_track
    /\ active_player[player_id]

(* ---------------- C6 ---------------- *)

\* C6: a turn moves its player to (old position + roll) mod board length,
\* positions stay within the board, and the bonus of 100 is credited in the
\* turn iff old position + roll >= board length; on a 20-cell board, rolls
\* of 6 lead from 0 to 6, 12, 18, 4 with the bonus on the fourth only.
C6_Movement ==
    /\ [](\A id \in PlayerIds : player_position[id] \in 0..(BoardLen - 1))
    /\ [][TurnStep
           => /\ player_position'[Mover] =
                     (player_position[Mover] + die_roll') % BoardLen
              /\ \A id \in PlayerIds \ {Mover} :
                     player_position'[id] = player_position[id]
              /\ completed_track' <=> Wraps
              /\ balance'[Mover] =
                     balance[Mover]
                     + (IF Wraps THEN 100 ELSE 0)
                     - (IF Landed.owner \notin {NoOwner, Mover}
                        THEN Landed.rent_cost ELSE 0)
                     - (IF Landed.owner = NoOwner
                           /\ board'[player_position'[Mover]].owner = Mover
                        THEN Landed.sell_cost ELSE 0)]_vars
    /\ [](/\ adjust_position_to_length(0 + 6, 20) = <<6, FALSE>>
          /\ adjust_position_to_length(6 + 6, 20) = <<12, FALSE>>
          /\ adjust_position_to_length(12 + 6, 20) = <<18, FALSE>>
          /\ adjust_position_to_length(18 + 6, 20) = <<4, TRUE>>)

\* A turn has just wrapped around the board onto cell 0 exactly.
C6_Witness ==
    /\ pc = "playing"
    /\ die_roll # 0
    /\ completed_track
    /\ player_position[player_id] = 0

(* ---------------- C7 ---------------- *)

\* What each strategy decides, as C7 states it.
C7_Decides ==
    LET b == BehaviorOf(Mover)
    IN  \/ b = Impulsive
        \/ b = Demanding /\ Landed.rent_cost > 50
        \/ b = Cautious /\ AfterBonus >= Landed.sell_cost + 80
        \/ b = Random /\ coin' = "heads"

\* C7: landing on an unowned property, the player becomes its owner and pays
\* exactly the purchase price iff it can afford it (bonus counted) and its
\* strategy decides to buy; otherwise the property stays unowned and nothing
\* is charged.
C7_Purchase ==
    [][TurnStep /\ Landed.owner = NoOwner
         => LET cell == player_position'[Mover]
            IN  IF AfterBonus >= Landed.sell_cost /\ C7_Decides
                THEN /\ board'[cell].owner = Mover
                     /\ balance'[Mover] = AfterBonus - Landed.sell_cost
                ELSE /\ board'[cell].owner = NoOwner
                     /\ balance'[Mover] = AfterBonus]_vars

\* The cautious player could afford the unowned property it landed on and
\* left it, for want of the margin of 80.
C7_Witness ==
    /\ pc = "playing"
    /\ die_roll # 0
    /\ BehaviorOf(player_id) = Cautious
    /\ landed_owner = NoOwner
    /\ board[player_position[player_id]].owner = NoOwner
    /\ balance[player_id] >= board[player_position[player_id]].sell_cost

(* ---------------- C8 ---------------- *)

\* C8: in a Game whose only player is impulsive, every unowned property the
\* player lands on while it can afford it is bought at once: the player
\* becomes the owner and pays exactly the purchase price.
C8_ImpulsiveAlone ==
    [][TurnStep /\ players = <<Impulsive>> /\ Landed.owner = NoOwner
          /\ AfterBonus >= Landed.sell_cost
         => /\ board'[player_position'[Mover]].owner = Mover
            /\ balance'[Mover] = AfterBonus - Landed.sell_cost]_vars

\* The lone impulsive player has just bought its second property.
C8_Witness ==
    /\ players = <<Impulsive>>
    /\ die_roll # 0
    /\ landed_owner = NoOwner
    /\ board[player_position[0]].owner = 0
    /\ Cardinality({c \in DOMAIN board : board[c].owner = 0}) >= 2

(* ---------------- C9 ---------------- *)

RECURSIVE SumOver(_, _)
SumOver(f, S) ==
    IF S = {} THEN 0
    ELSE LET x == CHOOSE y \in S : TRUE
         IN  f[x] + SumOver(f, S \ {x})

\* C9: after n >= 1 games the four strategies' win counts sum to the number
\* of games that ended with a single active player, which is games_simulated
\* - timed_out_games; the fractions returned are those counts over
\* games_simulated, and the mapping has no 'no winner' entry.
C9_WinPercentages ==
    /\ [](games_simulated >= 1 =>
            LET r == get_win_percentage_per_behavior
                wins == [b \in DOMAIN r |-> r[b][1]]
            IN  /\ DOMAIN r = {Impulsive, Demanding, Cautious, Random}
                /\ \A b \in DOMAIN r : r[b][2] = games_simulated
                /\ SumOver(wins, DOMAIN r) = games_simulated - timed_out_games
                /\ SumOver(wins, DOMAIN r) <= games_simulated)
    /\ [][RecordStep =>
            LET won == IF NumActive = 1 THEN 1 ELSE 0
            IN  /\ SumOver(wins_per_behavior', Behaviors) =
                       SumOver(wins_per_behavior, Behaviors) + won
                /\ timed_out_games' = timed_out_games + (1 - won)
                /\ games_simulated' = games_simulated + 1]_vars

\* Two games were played: one timed out, the other one had a winner.
C9_Witness ==
    /\ games_simulated = 2
    /\ timed_out_games = 1
    /\ wins_per_behavior[NoneType] = 1
    /\ SumOver(wins_per_behavior, Behaviors) = 1

(* ---------------- C10 ---------------- *)

\* C10: player_with_highest_balance returns a player holding the maximum
\* balance over all players, the first of the list among those who tie; a
\* timed-out game records that player as its winner.
C10_HighestBalance ==
    /\ [](LET w == player_with_highest_balance(balance)
          IN  /\ w \in PlayerIds
              /\ \A id \in PlayerIds : balance[id] <= balance[w]
              /\ \A id \in PlayerIds : id < w => balance[id] < balance[w])
    /\ [][RecordStep /\ NumActive # 1 =>
            LET w == winner'[Len(winner')]
            IN  /\ \A id \in PlayerIds : balance[id] <= balance[w]
                /\ \A id \in PlayerIds : id < w => balance[id] < balance[w]
         ]_vars

\* A timed-out game was recorded while two players tied for the highest
\* balance, above a third one.
C10_Witness ==
    /\ games_simulated = 1
    /\ timed_out_games = 1
    /\ \E i, j, k \in PlayerIds :
          /\ i < j
          /\ balance[i] = balance[j]
          /\ balance[k] < balance[i]
          /\ \A id \in PlayerIds : balance[id] <= balance[i]
          /\ winner[1] = i

(* ---------------- C11 ---------------- *)

\* C11: across consecutive play_game calls the balances persist: nothing
\* outside the turns of a game changes a balance, so each player starts the
\* next game with the balance it ended the previous one with (no reset to
\* 300); the turn counter (1), the current player (0), the positions (all 0)
\* and the active flags (all true) are fresh in every game.
C11_BalancesPersist ==
    /\ [][~(pc = "playing" /\ pc' = "playing") => balance' = balance]_vars
    /\ [][BeginStep
            => /\ current_turn' = 1
               /\ current_player' = 0
               /\ \A id \in PlayerIds :
                      player_position'[id] = 0 /\ active_player'[id]]_vars

\* A later game has just begun, after a game that moved players and
\* eliminated one, and a player starts it with a balance other than 300.
C11_Witness ==
    /\ pc = "playing"
    /\ games_simulated >= 1
    /\ current_turn = 1
    /\ die_roll = 0
    /\ \E id \in PlayerIds : balance[id] < 0
    /\ \E id \in PlayerIds : balance[id] > InitialBalance

(* ---------------- C12 ---------------- *)

OwnedCells(brd) == {c \in DOMAIN brd : brd[c].owner # NoOwner}

\* C12 as stated: ownership carries over between consecutive play_game
\* calls: when the game before ended with owned properties, the next game
\* begins with properties already owned.
C12_Original ==
    [][BeginStep /\ OwnedCells(board) # {} => OwnedCells(board') # {}]_vars

\* C12 amended: ownership does not carry over: every game started by
\* play_game begins on a freshly built board with every property unowned,
\* whatever was owned when the game before ended, and before the first turn
\* of a game nothing is owned.
C12_FreshBoard ==
    /\ [][BeginStep => OwnedCells(board') = {}]_vars
    /\ [](pc = "playing" /\ die_roll = 0 => OwnedCells(board) = {})

\* The second game of two players has just begun; the first ended by an
\* elimination, which left the winner owning the property that earned the
\* rent.
C12_Witness ==
    /\ pc = "playing"
    /\ Len(players) = 2
    /\ games_simulated = 1
    /\ timed_out_games = 0
    /\ current_turn = 1
    /\ die_roll = 0
    /\ board # << >>

(* ---------------- C13 ---------------- *)

\* C13: get_average_num_turns and get_win_percentage_per_behavior, called on
\* a GameRunner that has played no game, are guarded: the call never ends in
\* a division-by-zero error.
C13_Guarded ==
    games_simulated = 0 /\ call_result.call # "none"
        => call_result.raised # "ZeroDivisionError"

(* ---------------- C14 ---------------- *)

\* C14: after every turn current_player is the index of an active player:
\* the first active one met scanning cyclically from the neighbour of the
\* player that moved; when exactly one player is active it is that player;
\* and the search for it ends (no unbounded recursion).
C14_NextPlayer ==
    [][TurnStep
         => /\ pc' # "RecursionError"
            /\ current_player' \in PlayerIds
            /\ active_player'[current_player']
            /\ \E k \in 1..NumPlayers :
                   /\ current_player' = (Mover + k) % NumPlayers
                   /\ \A j \in 1..(k - 1) :
                          ~active_player'[(Mover + j) % NumPlayers]
            /\ Cardinality(ActivePlayers(active_player')) = 1
                   => ActivePlayers(active_player') = {current_player'}
      ]_vars

\* A turn of a game of three players after which the search passed over an
\* eliminated player while two were still active.
C14_Witness ==
    /\ pc = "playing"
    /\ die_roll # 0
    /\ NumActive = 2
    /\ current_player # (player_id + 1) % NumPlayers

(* ---------------- C15 ---------------- *)

\* C15: on a turn in which P lands on a property owned by a different
\* player O, with rent r, P's balance goes down by exactly r and O's changes
\* by min(P's balance before paying, r); P is eliminated in that turn exactly
\* when its balance after paying is negative; and a turn that lands on an
\* unowned property eliminates nobody.
C15_RentAndElimination ==
    /\ [][TurnStep /\ Landed.owner \notin {NoOwner, Mover}
            => /\ balance'[Mover] = AfterBonus - Landed.rent_cost
               /\ balance'[Landed.owner] =
                      balance[Landed.owner] + Min(AfterBonus, Landed.rent_cost)
               /\ ~active_player'[Mover] <=> balance'[Mover] < 0
               /\ balance'[Mover] < 0 <=> AfterBonus < Landed.rent_cost
          ]_vars
    /\ [][TurnStep /\ Landed.owner = NoOwner
            => active_player' = active_player]_vars

\* A player has just paid a rent it could not afford to another player, in
\* a game of three, and is out; the game goes on.
C15_Witness ==
    /\ pc = "playing"
    /\ die_roll # 0
    /\ landed_owner \notin {NoOwner, player_id}
    /\ balance[player_id] < 0
    /\ ~active_player[player_id]
    /\ NumActive = 2
    /\ current_turn < TurnLimit

(* ---------------- C16 ---------------- *)

\* C16: for a GameRunner with at least two players, after n play_game calls
\* games_simulated is n and n turn counts and n winners are recorded; every
\* recorded turn count lies between 2 and the turn limit; timed_out_games
\* counts the games that ended without a single active player and equals
\* the tally kept under NoneType; and every game counted as timed out has
\* the turn limit as its recorded turn count and a player of highest balance
\* as its recorded winner.
C16_RunnerCounters ==
    /\ [](NumPlayers >= 2
            => /\ Len(num_turns) = games_simulated
               /\ Len(winner) = games_simulated
               /\ timed_out_games = wins_per_behavior[NoneType]
               /\ \A g \in 1..Len(num_turns) :
                      num_turns[g] >= 2 /\ num_turns[g] <= TurnLimit)
    /\ [][RecordStep /\ NumPlayers >= 2
            => /\ games_simulated' = games_simulated + 1
               /\ IF NumActive = 1
                  THEN timed_out_games' = timed_out_games
                  ELSE /\ timed_out_games' = timed_out_games + 1
                       /\ num_turns'[Len(num_turns')] = TurnLimit
                       /\ \A id \in PlayerIds :
                              balance[id] <= balance[winner'[Len(winner')]]
          ]_vars

\* Two games of a runner with several players have been recorded: one was
\* won by elimination, the other timed out.
C16_Witness ==
    /\ pc = "idle"
    /\ NumPlayers >= 2
    /\ games_simulated = 2
    /\ timed_out_games = 1
    /\ num_turns[1] < TurnLimit
    /\ num_turns[2] = TurnLimit

(* ---------------- C17 ---------------- *)

\* C17: a balance is negative only inside a turn: between the turns of every
\* game, the games started by play_game after the first included, every
\* active player has a balance of at least 0 and a player is inactive
\* exactly when its balance is negative.
C17_NegativeOnlyInsideTurn ==
    pc = "playing"
        => \A id \in PlayerIds : active_player[id] <=> balance[id] >= 0

(* ---------------- C18 ---------------- *)

\* C18: in every state reached by the turns of a game at least one player is
\* active, because a turn can eliminate only the player that takes it, and
\* only when it pays rent to a different, active owner; so the search for
\* the next player never runs with every player inactive.
C18_SomeoneStaysActive ==
    /\ [](ActivePlayers(active_player) # {} /\ pc # "RecursionError")
    /\ [][\A id \in PlayerIds :
             TurnStep /\ active_player[id] /\ ~active_player'[id]
                => /\ id = Mover
                   /\ Landed.owner \notin {NoOwner, Mover}
                   /\ active_player[Landed.owner]]_vars

(* ---------------- C19 ---------------- *)

\* C19: elimination is permanent and freezes the player for the rest of the
\* game: an inactive player stays inactive, takes no turn and is not handed
\* the next one, owns nothing, and no later turn of that game changes its
\* position or its balance.
C19_EliminationFreezes ==
    [][\A id \in PlayerIds :
          pc = "playing" /\ pc' = "playing" /\ ~active_player[id]
             => /\ ~active_player'[id]
                /\ Mover # id
                /\ current_player' # id
                /\ player_position'[id] = player_position[id]
                /\ balance'[id] = balance[id]
                /\ \A c \in DOMAIN board : board[c].owner # id
                /\ \A c \in DOMAIN board' : board'[c].owner # id]_vars

\* In a game of three players, one is out and another player has just taken
\* a turn, landing on a property that is owned.
C19_Witness ==
    /\ pc = "playing"
    /\ die_roll # 0
    /\ landed_owner # NoOwner
    /\ \E id \in PlayerIds :
           /\ ~active_player[id]
           /\ id # player_id
           /\ active_player[player_id]

(* ---------------- C20 ---------------- *)

\* C20: in every turn of every game, the games played by play_game after
\* the first included, the balance of each player other than the one taking
\* the turn does not decrease: a rent received never lowers the owner's
\* balance and the players not involved keep theirs.
C20_OthersNeverLose ==
    [][TurnStep
         => \A id \in PlayerIds \ {Mover} : balance'[id] >= balance[id]]_vars


====
